---- MODULE Spec2Model ----
(***************************************************************************)
(* Model of app.py (Inventory360): a Flask application over one SQLite     *)
(* database with the tables users, inventory, purchases, sales and         *)
(* purchase_orders.  Every handler is one action, and the handlers that    *)
(* write stock are also given as the sequence of their database steps;     *)
(* the rows of the tables and the session cookies of the browsers are the  *)
(* state.                                                                  *)
(*                                                                         *)
(* Text (usernames, shop names, product names, units, search queries) is   *)
(* a sequence of one-character strings, so that strip(), LOWER() and LIKE  *)
(* are computed and not assumed.  Quantities and prices are integers (the  *)
(* REAL columns hold Python floats; rounding of floats is not modelled).   *)
(***************************************************************************)
EXTENDS Integers, Sequences, FiniteSets, TLC

VARIABLES
    users,            \* table users, in id order (id = position, AUTOINCREMENT)
    inventory,        \* table inventory: a set of rows
    inv_seq,          \* last id given out by inventory's AUTOINCREMENT
    purchases,        \* table purchases, in id order
    sales,            \* table sales, in id order
    purchase_orders,  \* table purchase_orders, in id order
    session,          \* session[c]: the "user_id" of browser c's cookie, 0 if none
    clock,            \* datetime.now(), as a counter
    resp,             \* the request just handled and its response
    inflight          \* inflight[c]: the request of browser c that is being
                      \* handled in steps, with the handler's local variables

vars == <<users, inventory, inv_seq, purchases, sales, purchase_orders,
          session, clock, resp, inflight>>

db == <<users, inventory, inv_seq, purchases, sales, purchase_orders>>

-----------------------------------------------------------------------------
(* Bounds of the model *)

MaxUsers == 2          \* registrations are explored while users has fewer rows
MaxInvId == 2          \* inventory rows are created while inv_seq is below this
MaxPurchases == 2      \* purchases are explored while the log is shorter
MaxSales == 2          \* sale lines are explored while the log has room
MaxOrders == 1         \* purchase orders are explored while the table is shorter
MaxQty == 3            \* stock entries are explored while |quantity| stays within
MaxOverLimit == 2      \* history is asked over logs with up to this many rows above its LIMIT

Clients == {"c1", "c2"}

-----------------------------------------------------------------------------
(* Text *)

Space == " "

\* str.strip(): drop the leading and the trailing blanks
RECURSIVE LStrip(_)
LStrip(t) == IF t # <<>> /\ Head(t) = Space THEN LStrip(Tail(t)) ELSE t

RECURSIVE RStrip(_)
RStrip(t) ==
    IF t # <<>> /\ t[Len(t)] = Space THEN RStrip(SubSeq(t, 1, Len(t) - 1)) ELSE t

Strip(t) == RStrip(LStrip(t))

\* the code points of the characters the model uses
Ord(ch) ==
    CASE ch = " " -> 32
      [] ch = "%" -> 37
      [] ch = "G" -> 71
      [] ch = "I" -> 73
      [] ch = "L" -> 76
      [] ch = "O" -> 79
      [] ch = "_" -> 95
      [] ch = "e" -> 101
      [] ch = "g" -> 103
      [] ch = "h" -> 104
      [] ch = "i" -> 105
      [] ch = "l" -> 108
      [] ch = "o" -> 111
      [] OTHER -> 122

\* SQL LOWER() on one character (ASCII upper case only)
LowerCh(ch) ==
    CASE ch = "G" -> "g"
      [] ch = "I" -> "i"
      [] ch = "L" -> "l"
      [] ch = "O" -> "o"
      [] OTHER -> ch

Lower(t) == [i \in 1..Len(t) |-> LowerCh(t[i])]

\* SQL "a LIKE p": % matches any run of characters, _ any one character,
\* letters match without regard to ASCII case
RECURSIVE Like(_, _)
Like(t, p) ==
    IF p = <<>> THEN t = <<>>
    ELSE IF Head(p) = "%"
         THEN Like(t, Tail(p)) \/ (t # <<>> /\ Like(Tail(t), p))
         ELSE /\ t # <<>>
              /\ (Head(p) = "_" \/ LowerCh(Head(p)) = LowerCh(Head(t)))
              /\ Like(Tail(t), Tail(p))

\* BINARY collation: a <= b
RECURSIVE TextLeq(_, _)
TextLeq(a, b) ==
    IF a = <<>> THEN TRUE
    ELSE IF b = <<>> THEN FALSE
    ELSE IF Head(a) = Head(b) THEN TextLeq(Tail(a), Tail(b))
    ELSE Ord(Head(a)) < Ord(Head(b))

-----------------------------------------------------------------------------
(* Form fields *)

\* a numeric form field as typed: a number, nothing, or text float() rejects
Num(n) == [t |-> "num", v |-> n]
Blank == [t |-> "blank", v |-> 0]
Junk == [t |-> "junk", v |-> 0]

\* a parse that falls back to 1
ParseNumber_DefaultOne(raw) == IF raw.t = "num" THEN raw.v ELSE 1

\* float(request.form.get(name, "0") or 0) inside try/except: 0.0 on failure
ParseNumber(raw) == IF raw.t = "num" THEN raw.v ELSE 0

\* request.form.get("unit", "Liters"): the field is a set, empty when absent
Liters == <<"L", "i", "t", "e", "r", "s">>
UnitField(field) == IF field = {} THEN Liters ELSE CHOOSE u \in field : TRUE

-----------------------------------------------------------------------------
(* Auth *)

\* generate_password_hash / check_password_hash
PasswordHash(pwd) == <<"hash", pwd>>
CheckPasswordHash(hash, pwd) == hash = PasswordHash(pwd)

\* SELECT * FROM users WHERE username = ?
UsersNamed(tbl, uname) == {i \in 1..Len(tbl) : tbl[i].username = uname}

\* current_user(): the users row of the session's user_id, 0 when there is none
\* purchases that fail are explored while the clock is below this
MaxClock == MaxPurchases + MaxSales

\* a handler that serves a request without a session as the first account
CurrentUser_FirstAccount(c) ==
    IF users = <<>> THEN 0
    ELSE IF session[c] = 0 \/ session[c] > Len(users) THEN 1 ELSE session[c]

CurrentUser(c) ==
    IF session[c] = 0 \/ session[c] > Len(users) THEN 0 ELSE session[c]

ShopOf(uid) == users[uid].shop_name

DefaultShop == <<"D">>

NoResp == [op |-> "none"]

\* no request of the browser is being handled
Idle == [pc |-> "idle"]

Init ==
    /\ users = <<>>
    /\ inventory = {}
    /\ inv_seq = 0
    /\ purchases = <<>>
    /\ sales = <<>>
    /\ purchase_orders = <<>>
    /\ session = [c \in Clients |-> 0]
    /\ clock = 0
    /\ resp = NoResp
    /\ inflight = [c \in Clients |-> Idle]

\* a users table without the UNIQUE constraint
UsernameTaken_Never(tbl, uname) == FALSE

\* the UNIQUE constraint on users.username
UsernameTaken(tbl, uname) == UsersNamed(tbl, uname) # {}

\* POST /register
Register(c, username, password, shop_name) ==
    LET uname == Strip(username)
        pwd == password
        shop == IF Strip(shop_name) = <<>> THEN DefaultShop ELSE Strip(shop_name)
        req == [op |-> "register", client |-> c, username |-> username,
                password |-> password, shop_name |-> shop_name]
    IN  /\ IF uname = <<>> \/ pwd = <<>>
           THEN /\ resp' = req @@ [flash |-> "Fill all fields", to |-> "register"]
                /\ UNCHANGED users
           ELSE IF UsernameTaken(users, uname)
           THEN /\ resp' = req @@ [flash |-> "Username already exists", to |-> "register"]
                /\ UNCHANGED users
           ELSE /\ Len(users) < MaxUsers
                /\ users' = Append(users, [id |-> Len(users) + 1, username |-> uname,
                                           password_hash |-> PasswordHash(pwd),
                                           shop_name |-> shop])
                /\ resp' = req @@ [flash |-> "Registered. Please login.", to |-> "login"]
        /\ UNCHANGED <<inventory, inv_seq, purchases, sales, purchase_orders,
                       session, clock>>

\* POST /login
Login(c, username, password) ==
    LET uname == Strip(username)
        found == UsersNamed(users, uname)
        req == [op |-> "login", client |-> c, username |-> username,
                password |-> password]
    IN  /\ IF found = {} \/ ~CheckPasswordHash(
                  users[CHOOSE i \in found : TRUE].password_hash, password)
           THEN /\ resp' = req @@ [flash |-> "Invalid credentials", to |-> "login"]
                /\ UNCHANGED session
           ELSE /\ session' = [session EXCEPT ![c] = CHOOSE i \in found : TRUE]
                /\ resp' = req @@ [flash |-> "", to |-> "dashboard"]
        /\ UNCHANGED <<users, inventory, inv_seq, purchases, sales,
                       purchase_orders, clock>>

\* GET /logout
Logout(c) ==
    /\ session' = [session EXCEPT ![c] = 0]
    /\ resp' = [op |-> "logout", client |-> c, flash |-> "", to |-> "login"]
    /\ UNCHANGED <<users, inventory, inv_seq, purchases, sales, purchase_orders,
                   clock>>

-----------------------------------------------------------------------------
(* Inventory *)

\* SELECT * FROM inventory WHERE shop_name=? AND oil_type=? AND unit=?
InventoryByKey(inv, shop, oil, unit) ==
    {r \in inv : r.shop_name = shop /\ r.oil_type = oil /\ r.unit = unit}

\* SELECT * FROM inventory WHERE id = ?
InventoryById(inv, iid) == {r \in inv : r.id = iid}

\* new_qty = existing["quantity"] + qty
UpsertQuantity(existing, qty) == existing.quantity + qty

\* the price of an updated row, averaged with the old one
UpsertPrice_Average(existing, price) == (existing.unit_price + price) \div 2

\* the unit_price the UPDATE writes
UpsertPrice(existing, price) == price

\* UPDATE inventory SET quantity=?, unit_price=? WHERE id=?
UpdateStock(inv, iid, new_qty, price) ==
    {IF r.id = iid THEN [r EXCEPT !.quantity = new_qty, !.unit_price = price] ELSE r
        : r \in inv}

\* the upsert of add_inventory and of purchase: the inventory table and its
\* AUTOINCREMENT counter afterwards
Upsert(inv, seq, shop, oil, unit, qty, price) ==
    LET existing == InventoryByKey(inv, shop, oil, unit)
    IN  IF existing # {}
        THEN LET ex == CHOOSE r \in existing : TRUE
             IN  [inventory |-> UpdateStock(inv, ex.id, UpsertQuantity(ex, qty),
                                            UpsertPrice(ex, price)),
                  inv_seq |-> seq]
        ELSE [inventory |-> inv \cup {[id |-> seq + 1, shop_name |-> shop,
                                       oil_type |-> oil, unit |-> unit,
                                       quantity |-> qty, unit_price |-> price]},
              inv_seq |-> seq + 1]

Abs(n) == IF n < 0 THEN -n ELSE n

\* the upserts the model explores: ids and quantities within the bounds
UpsertInBounds(inv, seq, shop, oil, unit, qty) ==
    LET existing == InventoryByKey(inv, shop, oil, unit)
    IN  IF existing # {}
        THEN \A ex \in existing : Abs(ex.quantity + qty) <= MaxQty
        ELSE seq < MaxInvId /\ Abs(qty) <= MaxQty

\* POST /inventory/add
AddInventory(c, oil_type, unit_field, quantity, price_field) ==
    LET user == CurrentUser(c)
        req == [op |-> "add_inventory", client |-> c, user |-> user,
                oil_type |-> oil_type, unit |-> unit_field,
                quantity |-> quantity, price |-> price_field]
    IN  IF user = 0
        THEN /\ resp' = req @@ [flash |-> "", to |-> "login"]
             /\ UNCHANGED <<users, inventory, inv_seq, purchases, sales,
                            purchase_orders, session, clock>>
        ELSE LET oil == Strip(oil_type)
                 unit == UnitField(unit_field)
                 qty == ParseNumber(quantity)
                 price == ParseNumber(price_field)
                 shop == ShopOf(user)
                 up == Upsert(inventory, inv_seq, shop, oil, unit, qty, price)
             IN  /\ UpsertInBounds(inventory, inv_seq, shop, oil, unit, qty)
                 /\ inventory' = up.inventory
                 /\ inv_seq' = up.inv_seq
                 /\ resp' = req @@ [flash |-> "Stock updated", to |-> "inventory"]
                 /\ UNCHANGED <<users, purchases, sales, purchase_orders,
                                session, clock>>

\* the purchase total, without the quantity
PurchaseTotal_PriceOnly(qty, price) == price

\* total = qty * price
PurchaseTotal(qty, price) == qty * price

\* INSERT INTO purchases (...) VALUES (...)
InsertPurchase(tbl, shop, oil, unit, qty, price, total, date) ==
    Append(tbl, [id |-> Len(tbl) + 1, shop_name |-> shop, oil_type |-> oil,
                 unit |-> unit, quantity |-> qty, price_per_unit |-> price,
                 total |-> total, date |-> date])

\* POST /purchase
Purchase(c, oil_type, unit_field, quantity, price_field) ==
    LET user == CurrentUser(c)
        req == [op |-> "purchase", client |-> c, user |-> user,
                oil_type |-> oil_type, unit |-> unit_field,
                quantity |-> quantity, price |-> price_field]
    IN  IF user = 0
        THEN /\ resp' = req @@ [flash |-> "", to |-> "login"]
             /\ UNCHANGED <<users, inventory, inv_seq, purchases, sales,
                            purchase_orders, session, clock>>
        ELSE LET shop == ShopOf(user)
                 oil == Strip(oil_type)
                 unit == UnitField(unit_field)
                 qty == ParseNumber(quantity)
                 price == ParseNumber(price_field)
                 total == PurchaseTotal(qty, price)
                 up == Upsert(inventory, inv_seq, shop, oil, unit, qty, price)
             IN  /\ Len(purchases) < MaxPurchases
                 /\ UpsertInBounds(inventory, inv_seq, shop, oil, unit, qty)
                 /\ clock' = clock + 1
                 /\ purchases' = InsertPurchase(purchases, shop, oil, unit, qty,
                                                price, total, clock')
                 /\ inventory' = up.inventory
                 /\ inv_seq' = up.inv_seq
                 /\ resp' = req @@ [flash |-> "Purchase recorded and inventory updated",
                                    to |-> "dashboard"]
                 /\ UNCHANGED <<users, sales, purchase_orders, session>>

-----------------------------------------------------------------------------
(* Sell *)

\* the sell page over the rows of every shop
ShopItems_All(inv, shop) == inv

\* SELECT * FROM inventory WHERE shop_name = ?
ShopItems(inv, shop) == {r \in inv : r.shop_name = shop}

\* ... ORDER BY oil_type: every order of the rows that ORDER BY allows (rows
\* with the same oil_type come in an order SQL leaves open)
OrderedByOilType(rows) ==
    {s \in [1..Cardinality(rows) -> rows] :
        /\ \A i, j \in DOMAIN s : i # j => s[i] # s[j]
        /\ \A i, j \in DOMAIN s : i < j => TextLeq(s[i].oil_type, s[j].oil_type)}

\* request.form.get(f"qty_{iid}", "").strip()
FormQty(form, iid) == IF iid \in DOMAIN form THEN form[iid] ELSE Blank

\* qty = float(raw_qty), 0 when float() raises
SellQuantity(raw_qty) == IF raw_qty.t = "num" THEN raw_qty.v ELSE 0

\* a loop that skips blank fields only
LineSkipped_BlankOnly(raw_qty) == raw_qty.t = "blank"

\* if not raw_qty: continue ... if qty <= 0: continue
LineSkipped(raw_qty) == raw_qty.t = "blank" \/ SellQuantity(raw_qty) <= 0

\* the stock check, one unit too lenient
NotEnoughStock_OffByOne(qty, row) == qty > row.quantity + 1

\* if qty > row["quantity"]
NotEnoughStock(qty, row) == qty > row.quantity

\* price_per_unit = row["unit_price"] or 0.0
SnapshotPrice(row) == IF row.unit_price = 0 THEN 0 ELSE row.unit_price

\* the line total, as a sum
LineTotal_Sum(qty, price_per_unit) == qty + price_per_unit

\* total = qty * price_per_unit
LineTotal(qty, price_per_unit) == qty * price_per_unit

\* the for loop that collects the lines to sell: the flash message of the
\* line that stops it ("" when none does) and the collected lines
RECURSIVE CollectSells(_, _, _, _)
CollectSells(items, form, inv, sells) ==
    IF items = <<>> THEN [flash |-> "", sells |-> sells]
    ELSE LET it == Head(items)
             raw_qty == FormQty(form, it.id)
             qty == SellQuantity(raw_qty)
             found == InventoryById(inv, it.id)
         IN  IF LineSkipped(raw_qty)
             THEN CollectSells(Tail(items), form, inv, sells)
             ELSE IF found = {}
             THEN [flash |-> "Item not found", sells |-> <<>>]
             ELSE LET row == CHOOSE r \in found : TRUE
                      price_per_unit == SnapshotPrice(row)
                  IN  IF NotEnoughStock(qty, row)
                      THEN [flash |-> "Not enough stock", sells |-> <<>>]
                      ELSE CollectSells(Tail(items), form, inv,
                               Append(sells,
                                   [inventory_id |-> row.id,
                                    oil_type |-> row.oil_type,
                                    unit |-> row.unit,
                                    qty |-> qty,
                                    price_per_unit |-> price_per_unit,
                                    total |-> LineTotal(qty, price_per_unit)]))

\* the stock left by a sale, always one unit less
SoldQuantity_One(ex, s) == ex.quantity - 1

\* new_qty = ex["quantity"] - s["qty"]
SoldQuantity(ex, s) == ex.quantity - s.qty

\* the deletion test, keeping a row that reached 0
StockExhausted_Strict(new_qty) == new_qty < 0

\* if new_qty <= 0: DELETE
StockExhausted(new_qty) == new_qty <= 0

\* DELETE FROM inventory WHERE id = ? / UPDATE inventory SET quantity=? WHERE id=?
ReduceInventory(inv, ex, s) ==
    LET new_qty == SoldQuantity(ex, s)
    IN  IF StockExhausted(new_qty)
        THEN {r \in inv : r.id # s.inventory_id}
        ELSE {IF r.id = s.inventory_id THEN [r EXCEPT !.quantity = new_qty] ELSE r
                 : r \in inv}

\* a sale written over the last record of the log
InsertSale_Overwrite(tbl, shop, s, date) ==
    LET rec == [id |-> Len(tbl), shop_name |-> shop, oil_type |-> s.oil_type,
                unit |-> s.unit, quantity |-> s.qty,
                price_per_unit |-> s.price_per_unit, total |-> s.total,
                date |-> date]
    IN  IF tbl = <<>> THEN <<[rec EXCEPT !.id = 1]>>
        ELSE [tbl EXCEPT ![Len(tbl)] = rec]

\* INSERT INTO sales (...) VALUES (...)
InsertSale(tbl, shop, s, date) ==
    Append(tbl, [id |-> Len(tbl) + 1, shop_name |-> shop, oil_type |-> s.oil_type,
                 unit |-> s.unit, quantity |-> s.qty,
                 price_per_unit |-> s.price_per_unit, total |-> s.total,
                 date |-> date])

\* a try block that checks the stock of the row once more
WriteRaises_WhenShort(found, s) ==
    found = {} \/ \E r \in found : s.qty > r.quantity

\* ex["quantity"] raises when ex is None: the row of the line is gone
WriteRaises(found, s) == found = {}

\* the try block: the tables after the loop over sells; ok is FALSE when a
\* line raised
RECURSIVE PerformSells(_, _, _, _, _)
PerformSells(sells, shop, inv, tbl, now) ==
    IF sells = <<>>
    THEN [ok |-> TRUE, inventory |-> inv, sales |-> tbl, clock |-> now]
    ELSE LET s == Head(sells)
             found == InventoryById(inv, s.inventory_id)
         IN  IF WriteRaises(found, s)
             THEN [ok |-> FALSE, inventory |-> inv, sales |-> tbl, clock |-> now]
             ELSE LET ex == CHOOSE r \in found : TRUE
                  IN  PerformSells(Tail(sells), shop, ReduceInventory(inv, ex, s),
                                   InsertSale(tbl, shop, s, now + 1), now + 1)

\* POST /sell, answering from the rows `items` that the first SELECT returned
SellItems(c, form, items) ==
    LET user == CurrentUser(c)
        shop == ShopOf(user)
        got == CollectSells(items, form, inventory, <<>>)
        done == PerformSells(got.sells, shop, inventory, sales, clock)
        req == [op |-> "sell", client |-> c, user |-> user, form |-> form,
                sells |-> got.sells]
    IN  IF got.flash # ""
        THEN /\ resp' = req @@ [flash |-> got.flash, to |-> "sell"]
             /\ UNCHANGED <<users, inventory, inv_seq, purchases, sales,
                            purchase_orders, session, clock>>
        ELSE IF got.sells = <<>>
        THEN /\ resp' = req @@ [flash |-> "No items selected for sale", to |-> "sell"]
             /\ UNCHANGED <<users, inventory, inv_seq, purchases, sales,
                            purchase_orders, session, clock>>
        ELSE /\ Len(sales) + Len(got.sells) <= MaxSales
             /\ IF done.ok
                THEN /\ inventory' = done.inventory
                     /\ sales' = done.sales
                     /\ clock' = done.clock
                     /\ resp' = req @@ [flash |-> "Sale recorded", to |-> "dashboard"]
                ELSE \* db.rollback()
                     /\ resp' = req @@ [flash |-> "Error recording sale", to |-> "sell"]
                     /\ UNCHANGED <<inventory, sales, clock>>
             /\ UNCHANGED <<users, inv_seq, purchases, purchase_orders, session>>

\* POST /sell
Sell(c, form) ==
    LET user == CurrentUser(c)
    IN  IF user = 0
        THEN /\ resp' = [op |-> "sell", client |-> c, user |-> user, form |-> form,
                         sells |-> <<>>, flash |-> "", to |-> "login"]
             /\ UNCHANGED <<users, inventory, inv_seq, purchases, sales,
                            purchase_orders, session, clock>>
        ELSE \E items \in OrderedByOilType(ShopItems(inventory, ShopOf(user))) :
                 SellItems(c, form, items)

-----------------------------------------------------------------------------
(* Purchase orders *)

\* POST /po
PurchaseOrder(c, oil_type, unit_field, quantity) ==
    LET user == CurrentUser(c)
        req == [op |-> "po", client |-> c, user |-> user, oil_type |-> oil_type,
                unit |-> unit_field, quantity |-> quantity]
    IN  IF user = 0
        THEN /\ resp' = req @@ [flash |-> "", to |-> "login"]
             /\ UNCHANGED <<users, inventory, inv_seq, purchases, sales,
                            purchase_orders, session, clock>>
        ELSE LET shop == ShopOf(user)
                 \* request.form.get("unit") or "Liters"
                 unit == IF unit_field = {} \/ unit_field = {<<>>}
                         THEN Liters ELSE CHOOSE u \in unit_field : TRUE
                 qty == ParseNumber(quantity)
             IN  /\ Len(purchase_orders) < MaxOrders
                 /\ clock' = clock + 1
                 /\ purchase_orders' =
                        Append(purchase_orders,
                               [id |-> Len(purchase_orders) + 1, shop_name |-> shop,
                                oil_type |-> oil_type, unit |-> unit,
                                quantity |-> qty, status |-> "Pending",
                                date |-> clock'])
                 /\ resp' = req @@ [flash |-> "Purchase order created", to |-> "po"]
                 /\ UNCHANGED <<users, inventory, inv_seq, purchases, sales, session>>

-----------------------------------------------------------------------------
(* Search *)

SearchLimit == 500

\* r comes before o in ORDER BY date DESC (rows of one date in rowid order)
Before(r, o) == r.date > o.date \/ (r.date = o.date /\ r.id < o.id)

\* the rows tbl[i], i \in keep, in ORDER BY date DESC: each row at the place
\* that the number of rows before it gives
ByDateDesc(tbl, keep) ==
    LET placed == {<<Cardinality({j \in keep : Before(tbl[j], tbl[i])}) + 1, i>> :
                      i \in keep}
    IN  IF keep = {} THEN <<>>
        ELSE [k \in 1..Cardinality(keep) |->
                 tbl[(CHOOSE p \in placed : p[1] = k)[2]]]

\* LIMIT n
Limit(s, n) == IF Len(s) <= n THEN s ELSE SubSeq(s, 1, n)

Rows(tbl) == {tbl[i] : i \in DOMAIN tbl}

\* a query without the shop filter
InShop_Any(row, shop) == TRUE

\* WHERE shop_name = ?
InShop(row, shop) == row.shop_name = shop

\* LOWER(column) LIKE LOWER('%q%')
Matches(text, q) == Like(Lower(text), Lower(<<"%">> \o q \o <<"%">>))

\* the inventory query of search
SearchInventory(inv, shop, q) ==
    {r \in inv : InShop(r, shop) /\ (Matches(r.oil_type, q) \/ Matches(r.unit, q))}

\* the sales and the purchases query of search
SearchLog(tbl, shop, q) ==
    Limit(ByDateDesc(tbl, {i \in DOMAIN tbl : /\ InShop(tbl[i], shop)
                                               /\ Matches(tbl[i].oil_type, q)}),
          SearchLimit)

\* GET /search?q=
Search(c, query) ==
    LET user == CurrentUser(c)
        q == Strip(query)
        req == [op |-> "search", client |-> c, user |-> user, query |-> query]
        none == [inv_rows |-> <<>>, sales_rows |-> <<>>, purchases_rows |-> <<>>]
    IN  /\ IF user = 0
           THEN resp' = req @@ none @@ [flash |-> "", to |-> "login"]
           ELSE IF q = <<>>
           THEN resp' = req @@ none @@ [flash |-> "Please enter a search keyword",
                                        to |-> "dashboard"]
           ELSE LET shop == ShopOf(user)
                    sales_rows == SearchLog(sales, shop, q)
                    purchases_rows == SearchLog(purchases, shop, q)
                IN  \E inv_rows \in OrderedByOilType(SearchInventory(inventory, shop, q)) :
                        resp' = req @@ [inv_rows |-> inv_rows,
                                        sales_rows |-> sales_rows,
                                        purchases_rows |-> purchases_rows,
                                        flash |-> IF inv_rows = <<>> /\ sales_rows = <<>>
                                                     /\ purchases_rows = <<>>
                                                  THEN "No record found" ELSE "",
                                        to |-> "results"]
        /\ UNCHANGED <<users, inventory, inv_seq, purchases, sales, purchase_orders,
                       session, clock>>

-----------------------------------------------------------------------------------------------------------------------------------------------------
(* Sales and purchase history *)

HistoryLimit == 200

\* the rows in ascending order of date
ByDateAsc(tbl, keep) ==
    LET s == ByDateDesc(tbl, keep)
    IN  IF keep = {} THEN <<>> ELSE [k \in 1..Len(s) |-> s[Len(s) + 1 - k]]

\* a history query that orders by date without DESC
HistoryRows_OldestFirst(tbl, shop) ==
    Limit(ByDateAsc(tbl, {i \in DOMAIN tbl : InShop(tbl[i], shop)}), HistoryLimit)

\* SELECT * FROM <log> WHERE shop_name = ? ORDER BY date DESC LIMIT 200
HistoryRows(tbl, shop) ==
    Limit(ByDateDesc(tbl, {i \in DOMAIN tbl : InShop(tbl[i], shop)}), HistoryLimit)

\* GET /sales
SalesHistory(c) ==
    LET user == CurrentUser(c)
        req == [op |-> "sales_history", client |-> c, user |-> user]
    IN  /\ IF user = 0
           THEN resp' = req @@ [rows |-> <<>>, to |-> "login"]
           ELSE resp' = req @@ [rows |-> HistoryRows(sales, ShopOf(user)),
                                to |-> "sales"]
        /\ UNCHANGED <<users, inventory, inv_seq, purchases, sales, purchase_orders,
                       session, clock>>

\* GET /purchases
PurchaseHistory(c) ==
    LET user == CurrentUser(c)
        req == [op |-> "purchase_history", client |-> c, user |-> user]
    IN  /\ IF user = 0
           THEN resp' = req @@ [rows |-> <<>>, to |-> "login"]
           ELSE resp' = req @@ [rows |-> HistoryRows(purchases, ShopOf(user)),
                                to |-> "purchases"]
        /\ UNCHANGED <<users, inventory, inv_seq, purchases, sales, purchase_orders,
                       session, clock>>

-----------------------------------------------------------------------------
(* Requests handled in steps                                               *)
(*                                                                         *)
(* The server handles requests in threads, and each request has its own    *)
(* connection (get_db keeps it in g).  A SELECT outside a transaction      *)
(* reads the committed tables.  sqlite3 opens a transaction before the     *)
(* first INSERT, UPDATE or DELETE of a connection, which takes the         *)
(* database's write lock until commit(), rollback() or close(); a second   *)
(* writer waits for it.  A handler is therefore a sequence of steps: its   *)
(* reads one after the other, then its transaction.  The tables of the     *)
(* state are the committed ones; what a transaction has written and not    *)
(* committed is in inflight.                                               *)

\* another connection is inside a transaction
WriteLocked(c) == \E o \in Clients \ {c} : inflight[o].pc = "tx"

\* no connection is inside a transaction
Unlocked == \A c \in Clients : inflight[c].pc # "tx"

UnchangedTables == UNCHANGED <<users, inventory, inv_seq, purchases, sales,
                               purchase_orders>>

\* the answer to a request that ended in an uncaught exception
ServerError == [flash |-> "", to |-> "error"]

\* POST /sell, lines 464-474: the rows of the sell page
SellBegin(c, form) ==
    LET user == CurrentUser(c)
        req == [op |-> "sell", client |-> c, user |-> user, form |-> form,
                sells |-> <<>>]
    IN  /\ inflight[c] = Idle
        /\ IF user = 0
           THEN /\ resp' = req @@ [flash |-> "", to |-> "login"]
                /\ UNCHANGED inflight
           ELSE \E items \in OrderedByOilType(ShopItems(inventory, ShopOf(user))) :
                   IF items = <<>>
                   THEN /\ resp' = req @@ [flash |-> "No items selected for sale",
                                           to |-> "sell"]
                        /\ UNCHANGED inflight
                   ELSE /\ inflight' = [inflight EXCEPT ![c] =
                               [pc |-> "check", op |-> "sell", user |-> user,
                                shop |-> ShopOf(user), form |-> form,
                                todo |-> items, sells |-> <<>>, ex |-> {}]]
                        /\ UNCHANGED resp
        /\ UnchangedTables
        /\ UNCHANGED <<session, clock>>

\* POST /sell, lines 475-506: one turn of the loop over items, which reads
\* the row of the line again
SellCheckLine(c) ==
    LET f == inflight[c]
        got == CollectSells(<<Head(f.todo)>>, f.form, inventory, f.sells)
        req == [op |-> "sell", client |-> c, user |-> f.user, form |-> f.form,
                sells |-> got.sells]
    IN  /\ f.pc = "check"
        /\ IF got.flash # ""
           THEN /\ resp' = req @@ [flash |-> got.flash, to |-> "sell"]
                /\ inflight' = [inflight EXCEPT ![c] = Idle]
           ELSE IF Tail(f.todo) # <<>>
           THEN /\ inflight' = [inflight EXCEPT ![c].todo = Tail(f.todo),
                                                ![c].sells = got.sells]
                /\ UNCHANGED resp
           ELSE IF got.sells = <<>>
           THEN /\ resp' = req @@ [flash |-> "No items selected for sale",
                                   to |-> "sell"]
                /\ inflight' = [inflight EXCEPT ![c] = Idle]
           ELSE /\ inflight' = [inflight EXCEPT ![c].pc = "read",
                                                ![c].todo = <<>>,
                                                ![c].sells = got.sells]
                /\ UNCHANGED resp
        /\ UnchangedTables
        /\ UNCHANGED <<session, clock>>

\* POST /sell, line 511 for the first line: ex is read before the first
\* DELETE or UPDATE opens the transaction
SellReadFirst(c) ==
    LET f == inflight[c]
    IN  /\ f.pc = "read"
        /\ inflight' = [inflight EXCEPT
                           ![c].pc = "write",
                           ![c].ex = InventoryById(inventory,
                                                   Head(f.sells).inventory_id)]
        /\ UnchangedTables
        /\ UNCHANGED <<session, clock, resp>>

\* a rollback that keeps what the statements before the failure wrote
RolledBack_Partial(committed, written) == written

\* db.rollback(): the tables are the committed ones again
RolledBack(committed, written) == committed

\* POST /sell, lines 508-526: the transaction of the try block, from the
\* first DELETE or UPDATE to commit() or rollback()
SellWrite(c) ==
    LET f == inflight[c]
        s1 == Head(f.sells)
        done == IF WriteRaises(f.ex, s1)
                THEN [ok |-> FALSE, inventory |-> inventory, sales |-> sales,
                      clock |-> clock]
                ELSE PerformSells(Tail(f.sells), f.shop,
                                  ReduceInventory(inventory,
                                                  CHOOSE r \in f.ex : TRUE, s1),
                                  InsertSale(sales, f.shop, s1, clock + 1),
                                  clock + 1)
        req == [op |-> "sell", client |-> c, user |-> f.user, form |-> f.form,
                sells |-> f.sells]
    IN  /\ f.pc = "write"
        /\ ~WriteLocked(c)
        /\ IF done.ok
           THEN /\ Len(done.sales) <= MaxSales
                /\ inventory' = done.inventory
                /\ sales' = done.sales
                /\ clock' = done.clock
                /\ resp' = req @@ [flash |-> "Sale recorded", to |-> "dashboard"]
           ELSE /\ inventory' = RolledBack(inventory, done.inventory)
                /\ sales' = RolledBack(sales, done.sales)
                /\ resp' = req @@ [flash |-> "Error recording sale", to |-> "sell"]
                /\ UNCHANGED clock
        /\ inflight' = [inflight EXCEPT ![c] = Idle]
        /\ UNCHANGED <<users, inv_seq, purchases, purchase_orders, session>>

\* POST /inventory/add, lines 354-372: the SELECT of the upsert
AddInventoryRead(c, oil_type, unit_field, quantity, price_field) ==
    LET user == CurrentUser(c)
        req == [op |-> "add_inventory", client |-> c, user |-> user,
                oil_type |-> oil_type, unit |-> unit_field,
                quantity |-> quantity, price |-> price_field]
    IN  /\ inflight[c] = Idle
        /\ IF user = 0
           THEN /\ resp' = req @@ [flash |-> "", to |-> "login"]
                /\ UNCHANGED inflight
           ELSE /\ inflight' = [inflight EXCEPT ![c] =
                       [pc |-> "upsert", req |-> req, shop |-> ShopOf(user),
                        oil |-> Strip(oil_type), unit |-> UnitField(unit_field),
                        qty |-> ParseNumber(quantity),
                        price |-> ParseNumber(price_field),
                        existing |-> InventoryByKey(inventory, ShopOf(user),
                                                    Strip(oil_type),
                                                    UnitField(unit_field))]]
                /\ UNCHANGED resp
        /\ UnchangedTables
        /\ UNCHANGED <<session, clock>>

\* an inventory table without the UNIQUE constraint
UniqueKeyTaken_Never(inv, shop, oil, unit) == FALSE

\* UNIQUE(shop_name, oil_type, unit): the INSERT raises IntegrityError
UniqueKeyTaken(inv, shop, oil, unit) == InventoryByKey(inv, shop, oil, unit) # {}

\* INSERT INTO inventory (...) VALUES (...)
InsertStock(inv, seq, shop, oil, unit, qty, price) ==
    inv \cup {[id |-> seq + 1, shop_name |-> shop, oil_type |-> oil, unit |-> unit,
               quantity |-> qty, unit_price |-> price]}

\* POST /inventory/add, lines 373-381: the UPDATE or the INSERT that the
\* SELECT chose, and commit()
AddInventoryWrite(c) ==
    LET f == inflight[c]
    IN  /\ f.pc = "upsert"
        /\ ~WriteLocked(c)
        /\ IF f.existing # {}
           THEN LET ex == CHOOSE r \in f.existing : TRUE
                IN  /\ Abs(UpsertQuantity(ex, f.qty)) <= MaxQty
                    /\ inventory' = UpdateStock(inventory, ex.id,
                                                UpsertQuantity(ex, f.qty),
                                                UpsertPrice(ex, f.price))
                    /\ resp' = f.req @@ [flash |-> "Stock updated", to |-> "inventory"]
                    /\ UNCHANGED inv_seq
           ELSE IF UniqueKeyTaken(inventory, f.shop, f.oil, f.unit)
           THEN /\ resp' = f.req @@ ServerError
                /\ UNCHANGED <<inventory, inv_seq>>
           ELSE /\ inv_seq < MaxInvId /\ Abs(f.qty) <= MaxQty
                /\ inventory' = InsertStock(inventory, inv_seq, f.shop, f.oil,
                                            f.unit, f.qty, f.price)
                /\ inv_seq' = inv_seq + 1
                /\ resp' = f.req @@ [flash |-> "Stock updated", to |-> "inventory"]
        /\ inflight' = [inflight EXCEPT ![c] = Idle]
        /\ UNCHANGED <<users, purchases, sales, purchase_orders, session, clock>>

\* a connection whose every statement is committed at once
OthersSee_Autocommit(committed, written) == written

\* what other connections read of a table while a transaction has written
\* to it and not committed
OthersSee(committed, written) == committed

\* POST /purchase, lines 399-417: the INSERT into purchases, which opens
\* the transaction
PurchaseInsert(c, oil_type, unit_field, quantity, price_field) ==
    LET user == CurrentUser(c)
        req == [op |-> "purchase", client |-> c, user |-> user,
                oil_type |-> oil_type, unit |-> unit_field,
                quantity |-> quantity, price |-> price_field]
        shop == ShopOf(user)
        oil == Strip(oil_type)
        unit == UnitField(unit_field)
        qty == ParseNumber(quantity)
        price == ParseNumber(price_field)
        written == InsertPurchase(purchases, shop, oil, unit, qty, price,
                                  PurchaseTotal(qty, price), clock + 1)
    IN  /\ inflight[c] = Idle
        /\ IF user = 0
           THEN /\ resp' = req @@ [flash |-> "", to |-> "login"]
                /\ UNCHANGED <<inflight, purchases, clock>>
           ELSE /\ ~WriteLocked(c)
                /\ Len(purchases) < MaxPurchases
                /\ clock < MaxClock
                /\ clock' = clock + 1
                /\ purchases' = OthersSee(purchases, written)
                /\ inflight' = [inflight EXCEPT ![c] =
                       [pc |-> "tx", req |-> req, shop |-> shop, oil |-> oil,
                        unit |-> unit, qty |-> qty, price |-> price,
                        purchases |-> written]]
                /\ UNCHANGED resp
        /\ UNCHANGED <<users, inventory, inv_seq, sales, purchase_orders, session>>

\* POST /purchase, lines 419-428: the upsert inside the transaction, and
\* commit()
PurchaseUpsert(c) ==
    LET f == inflight[c]
        up == Upsert(inventory, inv_seq, f.shop, f.oil, f.unit, f.qty, f.price)
    IN  /\ f.pc = "tx"
        /\ UpsertInBounds(inventory, inv_seq, f.shop, f.oil, f.unit, f.qty)
        /\ purchases' = f.purchases
        /\ inventory' = up.inventory
        /\ inv_seq' = up.inv_seq
        /\ resp' = f.req @@ [flash |-> "Purchase recorded and inventory updated",
                             to |-> "dashboard"]
        /\ inflight' = [inflight EXCEPT ![c] = Idle]
        /\ UNCHANGED <<users, sales, purchase_orders, session, clock>>

\* POST /purchase failing after the INSERT: a statement of the upsert raises
\* (or the process stops), nothing catches it, and close_connection closes
\* the connection without commit(), which rolls the transaction back
PurchaseFail(c) ==
    LET f == inflight[c]
    IN  /\ f.pc = "tx"
        /\ resp' = f.req @@ ServerError
        /\ inflight' = [inflight EXCEPT ![c] = Idle]
        /\ UnchangedTables
        /\ UNCHANGED <<session, clock>>

-----------------------------------------------------------------------------
(* The requests the model sends *)

Alice == <<"a">>
Bob == <<"b">>
Pw1 == <<"p">>
Pw2 == <<"q">>
ShopS == <<"S">>
ShopT == <<"T">>
Oil == <<"O", "i", "l">>
Ghee == <<"G", "h", "e", "e">>

\* the sell forms: a quantity field for every row some page could have shown
SellForms(Q) == [{r.id : r \in inventory} -> Q]

\* A request handled whole, in one step
DoRegister(C, R) ==
    /\ \E c \in C, r \in R : Register(c, r[1], r[2], r[3])
    /\ UNCHANGED inflight
DoLogin(C, L) ==
    /\ \E c \in C, l \in L : Login(c, l[1], l[2])
    /\ UNCHANGED inflight
DoLogout(C) ==
    /\ \E c \in C : Logout(c)
    /\ UNCHANGED inflight
DoAddInventory(C, O, U, Q, P) ==
    /\ \E c \in C, o \in O, u \in U, q \in Q, p \in P : AddInventory(c, o, u, q, p)
    /\ UNCHANGED inflight
DoPurchase(C, O, U, Q, P) ==
    /\ \E c \in C, o \in O, u \in U, q \in Q, p \in P : Purchase(c, o, u, q, p)
    /\ UNCHANGED inflight
DoSell(C, Q) ==
    /\ \E c \in C, form \in SellForms(Q) : Sell(c, form)
    /\ UNCHANGED inflight
DoPurchaseOrder(C, O, U, Q) ==
    /\ \E c \in C, o \in O, u \in U, q \in Q : PurchaseOrder(c, o, u, q)
    /\ UNCHANGED inflight
DoSearch(C, Qs) ==
    /\ \E c \in C, q \in Qs : Search(c, q)
    /\ UNCHANGED inflight
DoSalesHistory(C) ==
    /\ \E c \in C : SalesHistory(c)
    /\ UNCHANGED inflight
DoPurchaseHistory(C) ==
    /\ \E c \in C : PurchaseHistory(c)
    /\ UNCHANGED inflight

\* A request handled in steps: its first step with the form, and its others
DoSellBegin(C, Q) == \E c \in C, form \in SellForms(Q) : SellBegin(c, form)
DoSellStep(C) ==
    \E c \in C : SellCheckLine(c) \/ SellReadFirst(c) \/ SellWrite(c)
DoAddInventoryRead(C, O, U, Q, P) ==
    \E c \in C, o \in O, u \in U, q \in Q, p \in P : AddInventoryRead(c, o, u, q, p)
DoAddInventoryWrite(C) == \E c \in C : AddInventoryWrite(c)
DoPurchaseInsert(C, O, U, Q, P) ==
    \E c \in C, o \in O, u \in U, q \in Q, p \in P : PurchaseInsert(c, o, u, q, p)
DoPurchaseUpsert(C) == \E c \in C : PurchaseUpsert(c)
DoPurchaseFail(C) == \E c \in C : PurchaseFail(c)

\* One shop, two products: purchases and sales
Next ==
    \/ DoRegister({"c1"}, {<<Alice, Pw1, ShopS>>})
    \/ DoLogin({"c1"}, {<<Alice, Pw1>>})
    \/ DoPurchase({"c1"}, {Oil, Ghee}, {{}}, {Num(2), Num(-1)}, {Num(2), Num(3)})
    \/ DoSell({"c1"}, {Blank, Num(1), Num(2)})

Spec == Init /\ [][Next]_vars

\* Two shops, one product: purchases, sales and search
ShopsNext ==
    \/ DoRegister({"c1"}, {<<Alice, Pw1, ShopS>>})
    \/ DoRegister({"c2"}, {<<Bob, Pw2, ShopT>>})
    \/ DoLogin({"c1"}, {<<Alice, Pw1>>})
    \/ DoLogin({"c2"}, {<<Bob, Pw2>>})
    \/ DoPurchase(Clients, {Oil}, {{}}, {Num(2), Num(-1)}, {Num(2)})
    \/ DoSell(Clients, {Blank, Num(1), Num(2)})
    \/ DoSearch(Clients, {<<"O", "I">>, <<" ">>})

ShopsSpec == Init /\ [][ShopsNext]_vars

\* One shop, one product: manual stock entries next to purchases and sales
StockNext ==
    \/ DoRegister({"c1"}, {<<Alice, Pw1, ShopS>>})
    \/ DoLogin({"c1"}, {<<Alice, Pw1>>})
    \/ DoPurchase({"c1"}, {Oil}, {{}}, {Num(2)}, {Num(2)})
    \/ DoAddInventory({"c1"}, {Oil}, {{}}, {Num(1), Num(-1)}, {Num(3)})
    \/ DoSell({"c1"}, {Blank, Num(1)})

StockSpec == Init /\ [][StockNext]_vars

\* Accounts and sessions only
RegisterForms ==
    {<<u, p, s>> : u \in {Alice, Bob, <<" ", "a">>}, p \in {Pw1, Pw2, <<>>},
                   s \in {ShopS, ShopT, <<>>}}
LoginForms == {<<u, p>> : u \in {Alice, Bob}, p \in {Pw1, Pw2}}

AuthNext ==
    \/ DoRegister(Clients, RegisterForms)
    \/ DoLogin(Clients, LoginForms)
    \/ DoLogout(Clients)

AuthSpec == Init /\ [][AuthNext]_vars

\* One shop, one product, one browser that logs in and out: every handler
\* that writes, asked with and without a session
GuestNext ==
    \/ DoRegister({"c1"}, {<<Alice, Pw1, ShopS>>})
    \/ DoLogin({"c1"}, {<<Alice, Pw1>>})
    \/ DoLogout({"c1"})
    \/ DoAddInventory({"c1"}, {Oil}, {{}}, {Num(1)}, {Num(3)})
    \/ DoPurchase({"c1"}, {Oil}, {{}}, {Num(2)}, {Num(2)})
    \/ DoSell({"c1"}, {Num(1)})
    \/ DoPurchaseOrder({"c1"}, {Oil}, {{}}, {Num(2)})

GuestSpec == Init /\ [][GuestNext]_vars

\* One shop, one product: purchases and manual stock entries whose quantity
\* or price field is not a number
CoerceNext ==
    \/ DoRegister({"c1"}, {<<Alice, Pw1, ShopS>>})
    \/ DoLogin({"c1"}, {<<Alice, Pw1>>})
    \/ DoPurchase({"c1"}, {Oil}, {{}}, {Num(2), Junk}, {Num(3), Junk})
    \/ DoAddInventory({"c1"}, {Oil}, {{}}, {Num(1), Junk}, {Num(2), Junk})

CoerceSpec == Init /\ [][CoerceNext]_vars

\* One shop, two products: sales whose fields are blank, not a number, zero,
\* negative or positive
LinesNext ==
    \/ DoRegister({"c1"}, {<<Alice, Pw1, ShopS>>})
    \/ DoLogin({"c1"}, {<<Alice, Pw1>>})
    \/ DoPurchase({"c1"}, {Oil, Ghee}, {{}}, {Num(2)}, {Num(2)})
    \/ DoSell({"c1"}, {Blank, Junk, Num(0), Num(-1), Num(1)})

LinesSpec == Init /\ [][LinesNext]_vars

\* Two accounts, of two shops or of one: the second account registers with
\* the other shop's name or with the first one's (typed with a blank before
\* it); one product, the first account buys and the second enters stock by
\* hand, orders and sells
TenantNext ==
    \/ DoRegister({"c1"}, {<<Alice, Pw1, ShopS>>})
    \/ DoRegister({"c2"}, {<<Bob, Pw2, ShopT>>, <<Bob, Pw2, <<" ">> \o ShopS>>})
    \/ DoLogin({"c1"}, {<<Alice, Pw1>>})
    \/ DoLogin({"c2"}, {<<Bob, Pw2>>})
    \/ DoPurchase({"c1"}, {Oil}, {{}}, {Num(2)}, {Num(2)})
    \/ DoAddInventory({"c2"}, {Oil}, {{}}, {Num(1)}, {Num(3)})
    \/ DoSell({"c2"}, {Num(1)})
    \/ DoPurchaseOrder({"c2"}, {Oil}, {{}}, {Num(2)})

TenantSpec == Init /\ [][TenantNext]_vars

\* Two browsers of one account that sell at the same time: one shop, one
\* product, purchases handled whole
RaceNext ==
    \/ DoRegister({"c1"}, {<<Alice, Pw1, ShopS>>})
    \/ DoLogin(Clients, {<<Alice, Pw1>>})
    \/ DoPurchase({"c1"}, {Oil}, {{}}, {Num(2)}, {Num(2)})
    \/ DoSellBegin(Clients, {Num(1), Num(2)})
    \/ DoSellStep(Clients)

RaceSpec == Init /\ [][RaceNext]_vars

\* A sale of two lines handled in steps while another browser of the
\* account sells a row out: one shop, two products
RollbackNext ==
    \/ DoRegister({"c1"}, {<<Alice, Pw1, ShopS>>})
    \/ DoLogin(Clients, {<<Alice, Pw1>>})
    \/ DoPurchase({"c1"}, {Oil, Ghee}, {{}}, {Num(2)}, {Num(2)})
    \/ DoSellBegin({"c1"}, {Num(1)})
    \/ DoSellStep({"c1"})
    \/ DoSell({"c2"}, {Blank, Num(2)})

RollbackSpec == Init /\ [][RollbackNext]_vars

\* A purchase handled in steps, which may fail after its INSERT, while
\* another browser of the account reads the purchase history and sells:
\* one shop, one product
TxNext ==
    \/ DoRegister({"c1"}, {<<Alice, Pw1, ShopS>>})
    \/ DoLogin(Clients, {<<Alice, Pw1>>})
    \/ DoPurchaseInsert({"c1"}, {Oil}, {{}}, {Num(2), Junk}, {Num(2), Num(3)})
    \/ DoPurchaseUpsert({"c1"})
    \/ DoPurchaseFail({"c1"})
    \/ DoPurchaseHistory({"c2"})
    \/ (Unlocked /\ DoSell({"c2"}, {Num(1)}))

TxSpec == Init /\ [][TxNext]_vars

\* A manual stock entry handled in steps while another browser of the
\* account enters stock, buys and sells: one shop, one product
UpsertRaceNext ==
    \/ DoRegister({"c1"}, {<<Alice, Pw1, ShopS>>})
    \/ DoLogin(Clients, {<<Alice, Pw1>>})
    \/ DoAddInventoryRead({"c1"}, {Oil}, {{}}, {Num(1)}, {Num(3)})
    \/ DoAddInventoryWrite({"c1"})
    \/ DoAddInventory({"c2"}, {Oil}, {{}}, {Num(1)}, {Num(3)})
    \/ DoPurchase({"c2"}, {Oil}, {{}}, {Num(2)}, {Num(2)})
    \/ DoSell({"c2"}, {Num(2)})

UpsertRaceSpec == Init /\ [][UpsertRaceNext]_vars

\* Long logs: the history pages asked over logs of up to HistoryLimit +
\* MaxOverLimit rows of one shop.  A log of n rows is what n sales (or
\* purchases) leave behind: ids 1..n, every Gap-th row of the other shop, and
\* dates that follow the ids except that the clock was set back after the
\* first `back` rows.
LogRow(i, n, gap, back) ==
    [id |-> i, shop_name |-> IF i % gap = 0 THEN ShopT ELSE ShopS,
     oil_type |-> Oil, unit |-> Liters, quantity |-> 1, price_per_unit |-> 2,
     total |-> 2, date |-> IF i <= back THEN i + (n - back) ELSE i - back]

Log(n, gap, back) == [i \in 1..n |-> LogRow(i, n, gap, back)]

ShortLogs == {Log(n, 2, back) : n \in 0..3, back \in 0..1}

LongLogs ==
    {Log(HistoryLimit + k, HistoryLimit \div 2, back) :
        k \in 1..(MaxOverLimit + 2), back \in {0, HistoryLimit \div 2}}

HistoryInit ==
    /\ users = <<[id |-> 1, username |-> Alice, password_hash |-> PasswordHash(Pw1),
                  shop_name |-> ShopS],
                 [id |-> 2, username |-> Bob, password_hash |-> PasswordHash(Pw2),
                  shop_name |-> ShopT]>>
    /\ session = [c \in Clients |-> IF c = "c1" THEN 1 ELSE 2]
    /\ \/ sales \in LongLogs /\ purchases = <<>>
       \/ sales = <<>> /\ purchases \in LongLogs
       \/ sales \in ShortLogs /\ purchases \in ShortLogs
    /\ inventory = {}
    /\ inv_seq = IF sales = <<>> /\ purchases = <<>> THEN 0 ELSE 1
    /\ purchase_orders = <<>>
    /\ clock = Len(sales) + Len(purchases)
    /\ resp = NoResp
    /\ inflight = [c \in Clients |-> Idle]

HistoryNext ==
    \/ DoSalesHistory(Clients)
    \/ DoPurchaseHistory(Clients)

HistorySpec == HistoryInit /\ [][HistoryNext]_vars

-----------------------------------------------------------------------------
(* Properties of a sale *)

\* The step just taken handled a POST /sell of a logged-in user.
SellHandled == resp'.op = "sell" /\ resp'.user # 0

\* The lines of the sale form handled in this step: the rows of the caller's
\* shop, as they were before the step, whose field holds a positive number.
SaleLines ==
    {r \in inventory :
        /\ r.shop_name = users[resp'.user].shop_name
        /\ r.id \in DOMAIN resp'.form
        /\ resp'.form[r.id].t = "num"
        /\ resp'.form[r.id].v > 0}

Requested(r) == resp'.form[r.id].v

\* C1: if any line of a submitted sale requests more than the current stock
\* of its inventory row, the sale is rejected as a whole: the inventory table
\* and the sales log are left exactly as they were.
C1_InsufficientStockRejectsSale ==
    [][(SellHandled /\ \E r \in SaleLines : Requested(r) > r.quantity)
          => /\ resp'.flash # "Sale recorded"
             /\ inventory' = inventory
             /\ sales' = sales]_vars

\* a rejected sale of two lines, one within its row's stock and one above it
C1_Witness ==
    /\ resp.op = "sell"
    /\ resp.flash = "Not enough stock"
    /\ \E r1, r2 \in inventory :
          /\ r1.id \in DOMAIN resp.form /\ r2.id \in DOMAIN resp.form
          /\ resp.form[r1.id].t = "num" /\ resp.form[r2.id].t = "num"
          /\ r1.quantity > 0 /\ resp.form[r1.id].v > r1.quantity
          /\ resp.form[r2.id].v > 0 /\ resp.form[r2.id].v <= r2.quantity

\* the records a step appended to the sales log
NewSales == {i \in DOMAIN sales' : i > Len(sales)}

\* C2: a sale whose every line asks for a positive q that is at most the
\* stock s of its row succeeds; the row is left with s - q (and is gone when
\* that is 0), and the sales log grows by exactly one record per line, with
\* the row's item and unit, quantity q, the row's unit price and q x price.
C2_SaleWithinStockSucceeds ==
    [][(/\ SellHandled
        /\ SaleLines # {}
        /\ \A r \in SaleLines : Requested(r) <= r.quantity)
          => /\ resp'.flash = "Sale recorded"
             /\ \A r \in SaleLines :
                   LET left == {n \in inventory' : n.id = r.id}
                   IN  IF r.quantity - Requested(r) = 0
                       THEN left = {}
                       ELSE left = {[r EXCEPT !.quantity = r.quantity - Requested(r)]}
             /\ {n \in inventory' : \A r \in SaleLines : n.id # r.id}
                   = inventory \ SaleLines
             /\ Len(sales') = Len(sales) + Cardinality(SaleLines)
             /\ SubSeq(sales', 1, Len(sales)) = sales
             /\ \A r \in SaleLines :
                   Cardinality({i \in NewSales :
                       /\ sales'[i].shop_name = r.shop_name
                       /\ sales'[i].oil_type = r.oil_type
                       /\ sales'[i].unit = r.unit
                       /\ sales'[i].quantity = Requested(r)
                       /\ sales'[i].price_per_unit = r.unit_price
                       /\ sales'[i].total = Requested(r) * r.unit_price}) = 1]_vars

\* a recorded sale of two lines that left stock behind in one of its rows
C2_Witness ==
    /\ resp.op = "sell"
    /\ resp.flash = "Sale recorded"
    /\ Len(resp.sells) = 2
    /\ \E r \in inventory : \E i \in DOMAIN resp.sells :
          r.id = resp.sells[i].inventory_id /\ r.quantity > 0
    /\ \E i \in DOMAIN sales : sales[i].total > 0

\* C3: a successful sale that takes all that is left of a row deletes the
\* row, and no row the sale touched is left with a quantity <= 0.
C3_ExhaustedRowDeleted ==
    [][(SellHandled /\ resp'.flash = "Sale recorded")
          => \A r \in SaleLines :
                /\ Requested(r) = r.quantity
                      => \A n \in inventory' : n.id # r.id
                /\ \A n \in inventory' : n.id = r.id => n.quantity > 0]_vars

\* a recorded sale after which the row of one of its lines is gone
C3_Witness ==
    /\ resp.op = "sell"
    /\ resp.flash = "Sale recorded"
    /\ \E i \in DOMAIN resp.sells :
          \A r \in inventory : r.id # resp.sells[i].inventory_id

-----------------------------------------------------------------------------
(* Properties of a purchase and of the inventory upsert *)

\* The step just taken handled a stock-in request of a logged-in user.
StockInHandled(ops) == resp'.op \in ops /\ resp'.user # 0

\* what the request of this step asked for
ReqShop == users[resp'.user].shop_name
ReqOil == Strip(resp'.oil_type)
ReqUnit == UnitField(resp'.unit)
ReqQty == ParseNumber(resp'.quantity)
ReqPrice == ParseNumber(resp'.price)
ReqRows(inv) ==
    {r \in inv : r.shop_name = ReqShop /\ r.oil_type = ReqOil /\ r.unit = ReqUnit}

\* C4: a purchase of q at price p for a key without an inventory row creates
\* one row with quantity q and unit_price p, and appends exactly one purchase
\* record with quantity q, price_per_unit p and total q x p.
C4_PurchaseOfNewItem ==
    [][(StockInHandled({"purchase"}) /\ ReqRows(inventory) = {})
          => /\ \E n \in inventory' :
                   /\ n.quantity = ReqQty /\ n.unit_price = ReqPrice
                   /\ ReqRows(inventory') = {n}
                   /\ inventory' = inventory \cup {n}
             /\ Len(purchases') = Len(purchases) + 1
             /\ SubSeq(purchases', 1, Len(purchases)) = purchases
             /\ LET rec == purchases'[Len(purchases')]
                IN  /\ rec.shop_name = ReqShop
                    /\ rec.oil_type = ReqOil
                    /\ rec.unit = ReqUnit
                    /\ rec.quantity = ReqQty
                    /\ rec.price_per_unit = ReqPrice
                    /\ rec.total = ReqQty * ReqPrice]_vars

\* a purchase that created the row of its key: the first record of that key
C4_Witness ==
    /\ resp.op = "purchase"
    /\ resp.flash = "Purchase recorded and inventory updated"
    /\ LET rec == purchases[Len(purchases)]
       IN  /\ rec.total = rec.quantity * rec.price_per_unit /\ rec.total > rec.quantity
           /\ \A i \in 1..(Len(purchases) - 1) : purchases[i].oil_type # rec.oil_type
           /\ \E r \in inventory :
                 r.oil_type = rec.oil_type /\ r.quantity = rec.quantity

\* C5: an upsert, by a purchase or by a manual stock entry, of d at price p
\* on a key whose row holds quantity s leaves that row with quantity s + d
\* and unit_price p (the old price is dropped, not averaged); no second row
\* appears and no other row changes.
C5_UpsertOfExistingItem ==
    [][(StockInHandled({"purchase", "add_inventory"}) /\ ReqRows(inventory) # {})
          => \E r \in ReqRows(inventory) :
                /\ ReqRows(inventory) = {r}
                /\ ReqRows(inventory') =
                      {[r EXCEPT !.quantity = r.quantity + ReqQty,
                                 !.unit_price = ReqPrice]}
                /\ inventory' \ ReqRows(inventory') = inventory \ {r}]_vars

\* a manual stock entry on a row that a purchase had priced differently
C5_Witness ==
    /\ resp.op = "add_inventory"
    /\ resp.flash = "Stock updated"
    /\ \E r \in inventory :
          /\ r.oil_type = Strip(resp.oil_type)
          /\ r.unit_price = ParseNumber(resp.price)
          /\ r.quantity # ParseNumber(resp.quantity)
          /\ \E i \in DOMAIN purchases :
                /\ purchases[i].oil_type = r.oil_type
                /\ purchases[i].price_per_unit # r.unit_price

-----------------------------------------------------------------------------
(* Registration *)

\* C6: registering a username that is registered already fails and changes
\* nothing: the users table, with every password hash and shop name, and
\* all other tables stay as they were.
C6_DuplicateUsernameRejected ==
    [][(resp'.op = "register" /\ UsersNamed(users, Strip(resp'.username)) # {})
          => /\ resp'.flash # "Registered. Please login."
             /\ users' = users
             /\ db' = db]_vars

\* a rejected registration that gave another password and another shop than
\* the registered user of that name has
C6_Witness ==
    /\ resp.op = "register"
    /\ resp.flash = "Username already exists"
    /\ \E i \in DOMAIN users :
          /\ users[i].username = Strip(resp.username)
          /\ users[i].password_hash # PasswordHash(resp.password)
          /\ users[i].shop_name # Strip(resp.shop_name)

-----------------------------------------------------------------------------
(* Search *)

SeqRows(s) == {s[i] : i \in DOMAIN s}

\* C7: every inventory, sale and purchase row that a search returns belongs
\* to the shop of the user who searched.
C7_SearchScopedToShop ==
    (resp.op = "search" /\ resp.user # 0)
        => \A r \in SeqRows(resp.inv_rows) \cup SeqRows(resp.sales_rows)
                      \cup SeqRows(resp.purchases_rows) :
               r.shop_name = users[resp.user].shop_name

\* a search that returned rows of all three kinds while the other shop held
\* an inventory row, a sale and a purchase that match the query too
C7_Witness ==
    /\ resp.op = "search"
    /\ resp.inv_rows # <<>> /\ resp.sales_rows # <<>> /\ resp.purchases_rows # <<>>
    /\ LET mine == users[resp.user].shop_name
           q == Strip(resp.query)
       IN  /\ \E r \in inventory : r.shop_name # mine /\ Matches(r.oil_type, q)
           /\ \E i \in DOMAIN sales :
                 sales[i].shop_name # mine /\ Matches(sales[i].oil_type, q)
           /\ \E i \in DOMAIN purchases :
                 purchases[i].shop_name # mine /\ Matches(purchases[i].oil_type, q)

-----------------------------------------------------------------------------
(* The ledger *)

KeyOf(r) == <<r.shop_name, r.oil_type, r.unit>>

LedgerKeys ==
    {KeyOf(r) : r \in inventory} \cup {KeyOf(purchases[i]) : i \in DOMAIN purchases}
        \cup {KeyOf(sales[i]) : i \in DOMAIN sales}

\* the sum of the quantities of the records of a log under a key
RECURSIVE LoggedQuantity(_, _)
LoggedQuantity(tbl, key) ==
    IF tbl = <<>> THEN 0
    ELSE (IF KeyOf(Head(tbl)) = key THEN Head(tbl).quantity ELSE 0)
             + LoggedQuantity(Tail(tbl), key)

\* the sum of the quantities of a set of inventory rows
RECURSIVE StockOf(_)
StockOf(rows) ==
    IF rows = {} THEN 0
    ELSE LET r == CHOOSE x \in rows : TRUE IN r.quantity + StockOf(rows \ {r})

\* C8: with purchases and sales handled one after the other and no manual
\* stock entry, the inventory quantity of every (shop, item, unit) key, 0
\* when it has no row, is the sum of the key's purchase quantities minus the
\* sum of its sale quantities.
C8_StockEqualsPurchasesMinusSales ==
    \A key \in LedgerKeys :
        StockOf({r \in inventory : KeyOf(r) = key})
            = LoggedQuantity(purchases, key) - LoggedQuantity(sales, key)

\* both shops have bought and sold the same product, and one has stock left
C8_Witness ==
    /\ \E i, j \in DOMAIN sales : sales[i].shop_name # sales[j].shop_name
    /\ \E i, j \in DOMAIN purchases : purchases[i].shop_name # purchases[j].shop_name
    /\ \E r \in inventory : r.quantity > 0

\* C9: every inventory row has quantity >= 0 in every reachable state.
C9_QuantityNeverNegative == \A r \in inventory : r.quantity >= 0

-----------------------------------------------------------------------------
(* The logs *)

IsPrefix(s, t) == Len(s) <= Len(t) /\ SubSeq(t, 1, Len(s)) = s

\* C10: the purchase log and the sales log are append-only: every step
\* keeps each record of either log, with all its fields, and only adds
\* records behind them.
C10_LogsAppendOnly ==
    [][IsPrefix(purchases, purchases') /\ IsPrefix(sales, sales')]_vars

\* a sale was recorded behind an earlier sale, with purchases in their log
C10_Witness ==
    /\ resp.op = "sell"
    /\ resp.flash = "Sale recorded"
    /\ Len(sales) >= 2
    /\ Len(purchases) >= 1

-----------------------------------------------------------------------------
(* Properties of the login guard *)

\* the handlers that write stock, purchases, sales or purchase orders
WritingOps == {"add_inventory", "purchase", "sell", "po"}

\* C11: while a browser has no logged-in user (before any login, or after a
\* logout), its requests to the manual stock entry, purchase, sell and
\* purchase-order handlers are answered with a redirect to the login page and
\* change no stored data.
C11_GuestRequestsChangeNothing ==
    [][(resp'.op \in WritingOps /\ session[resp'.client] = 0)
          => /\ resp'.to = "login"
             /\ db' = db]_vars

\* a sale within stock asked after a logout, while the shop has stock
C11_Witness ==
    /\ resp.op = "sell"
    /\ session[resp.client] = 0
    /\ resp.to = "login"
    /\ users # <<>>
    /\ \E r \in inventory :
          /\ r.id \in DOMAIN resp.form
          /\ resp.form[r.id].t = "num"
          /\ resp.form[r.id].v > 0 /\ resp.form[r.id].v <= r.quantity

-----------------------------------------------------------------------------
(* Properties of the history pages *)

\* the log a history request reads
HistoryLog == IF resp'.op = "sales_history" THEN sales ELSE purchases

\* the rows of that log that belong to the caller's shop
OwnHistory == {r \in Rows(HistoryLog) : r.shop_name = users[resp'.user].shop_name}

\* C12: the sales history and the purchase history return only records of
\* the caller's shop, each at most once, ordered from the newest date to the
\* oldest, and never more than 200 of them; when the shop has more than 200
\* records the ones returned are the 200 newest.
C12_HistoryNewest200 ==
    [][(resp'.op \in {"sales_history", "purchase_history"} /\ resp'.user # 0)
          => LET rows == resp'.rows
                 shown == {rows[i] : i \in DOMAIN rows}
             IN  /\ shown \subseteq OwnHistory
                 /\ Cardinality(shown) = Len(rows)
                 /\ \A i \in 1..(Len(rows) - 1) : rows[i].date >= rows[i + 1].date
                 /\ Len(rows) <= 200
                 /\ Cardinality(OwnHistory) <= 200 => shown = OwnHistory
                 /\ Cardinality(OwnHistory) > 200 =>
                       /\ Len(rows) = 200
                       /\ \A r \in OwnHistory \ shown :
                             \A i \in DOMAIN rows : r.date <= rows[i].date]_vars

\* a sales history of 200 rows out of more, over a log that also holds rows
\* of another shop and whose dates do not follow the ids
C12_Witness ==
    /\ resp.op = "sales_history"
    /\ resp.user # 0
    /\ Len(resp.rows) = 200
    /\ Cardinality({r \in Rows(sales) : r.shop_name = users[resp.user].shop_name}) > 200
    /\ \E r \in Rows(sales) : r.shop_name # users[resp.user].shop_name
    /\ \E i \in DOMAIN resp.rows : i > 1 /\ resp.rows[i].id > resp.rows[i - 1].id

-----------------------------------------------------------------------------
(* Properties of invalid numbers *)

\* the number the claim gives to a field: its value, or 0 when it is not one
ZeroIfInvalid(raw) == IF raw.t = "num" THEN raw.v ELSE 0

\* C17: a purchase or a manual stock entry whose quantity or price field is
\* not a valid number is not rejected; the field counts as 0.  With an
\* invalid quantity a purchase still appends its record, with quantity 0 and
\* total 0; the row of the key keeps its quantity (a new row is created with
\* quantity 0) and its unit_price is overwritten with the submitted price.
C17_InvalidNumberIsZero ==
    [][(/\ StockInHandled({"purchase", "add_inventory"})
        /\ (resp'.quantity.t # "num" \/ resp'.price.t # "num"))
          => LET q == ZeroIfInvalid(resp'.quantity)
                 p == ZeroIfInvalid(resp'.price)
             IN  /\ resp'.to # "login"
                 /\ resp'.flash \in {"Purchase recorded and inventory updated",
                                     "Stock updated"}
                 /\ resp'.op = "add_inventory" => purchases' = purchases
                 /\ resp'.op = "purchase" =>
                       /\ Len(purchases') = Len(purchases) + 1
                       /\ SubSeq(purchases', 1, Len(purchases)) = purchases
                       /\ LET rec == purchases'[Len(purchases')]
                          IN  /\ rec.shop_name = ReqShop /\ rec.oil_type = ReqOil
                              /\ rec.unit = ReqUnit
                              /\ rec.quantity = q
                              /\ rec.price_per_unit = p
                              /\ rec.total = q * p
                              /\ resp'.quantity.t # "num" =>
                                    rec.quantity = 0 /\ rec.total = 0
                 /\ \A r \in ReqRows(inventory) :
                       ReqRows(inventory') =
                          {[r EXCEPT !.quantity = r.quantity + q, !.unit_price = p]}
                 /\ ReqRows(inventory) = {} =>
                       \E n \in inventory' :
                          /\ n.quantity = q /\ n.unit_price = p
                          /\ ReqRows(inventory') = {n}
                 /\ inventory' \ ReqRows(inventory') = inventory \ ReqRows(inventory)]_vars

\* a purchase with an invalid quantity and a valid price on a key whose row
\* holds stock bought at another price: the record has quantity 0 and
\* total 0, the row has its stock and the new price
C17_Witness ==
    /\ resp.op = "purchase"
    /\ resp.flash = "Purchase recorded and inventory updated"
    /\ resp.quantity.t = "junk" /\ resp.price.t = "num"
    /\ Len(purchases) > 1
    /\ LET rec == purchases[Len(purchases)]
       IN  /\ rec.quantity = 0 /\ rec.total = 0 /\ rec.price_per_unit = resp.price.v
           /\ \E r \in inventory :
                 /\ KeyOf(r) = KeyOf(rec)
                 /\ r.quantity > 0
                 /\ r.unit_price = resp.price.v
           /\ \E i \in 1..(Len(purchases) - 1) :
                 /\ KeyOf(purchases[i]) = KeyOf(rec)
                 /\ purchases[i].quantity > 0

-----------------------------------------------------------------------------
(* Properties of ignored sale lines *)

\* a quantity field that is blank, not a number, zero or negative
Ignored(raw) == raw.t \in {"blank", "junk"} \/ raw.v <= 0

\* the rows of the caller's shop, as they were before the step
OwnRows == {r \in inventory : r.shop_name = users[resp'.user].shop_name}

\* C19: a line of a sale whose quantity is blank, not a number, zero or
\* negative is ignored: its row is left as it was and no sale record is
\* written for it.  So a sale never raises the quantity of a row (and
\* creates none).  When every line is ignored the sale is rejected with
\* "No items selected for sale" and no stored data changes.
C19_IgnoredLines ==
    [][SellHandled
          => /\ \A r \in OwnRows :
                   Ignored(FormQty(resp'.form, r.id))
                      => /\ r \in inventory'
                         /\ \A i \in NewSales : KeyOf(sales'[i]) # KeyOf(r)
             /\ \A n \in inventory' :
                   \E r \in inventory : r.id = n.id /\ n.quantity <= r.quantity
             /\ (\A r \in OwnRows : Ignored(FormQty(resp'.form, r.id)))
                   => /\ resp'.flash = "No items selected for sale"
                      /\ db' = db]_vars

\* a recorded sale of one line whose form also held a negative quantity for
\* another row, which is still there with its stock
C19_Witness ==
    /\ resp.op = "sell"
    /\ resp.flash = "Sale recorded"
    /\ Len(resp.sells) = 1
    /\ \E r \in inventory :
          /\ r.id \in DOMAIN resp.form
          /\ resp.form[r.id] = Num(-1)
          /\ r.quantity > 0
          /\ sales[Len(sales)].oil_type # r.oil_type

-----------------------------------------------------------------------------
(* Properties of shops *)

\* the rows of a table, or of a log, that belong to another shop than `shop`
OtherRows(rows, shop) == {r \in rows : r.shop_name # shop}

\* C18: a request of a user of shop A leaves every inventory row, purchase,
\* sale and purchase order of every other shop as it was.  The shop is the
\* shop_name text alone: a stock entry on a key that has a row with the
\* user's shop_name goes to that row, and a sale takes from the rows with
\* the user's shop_name, whichever account made them.
C18_OtherShopsUntouched ==
    [][(resp'.op \in WritingOps /\ resp'.user # 0)
          => /\ OtherRows(inventory', ReqShop) = OtherRows(inventory, ReqShop)
             /\ OtherRows(Rows(purchases'), ReqShop) = OtherRows(Rows(purchases), ReqShop)
             /\ OtherRows(Rows(sales'), ReqShop) = OtherRows(Rows(sales), ReqShop)
             /\ OtherRows(Rows(purchase_orders'), ReqShop)
                   = OtherRows(Rows(purchase_orders), ReqShop)
             /\ resp'.op \in {"purchase", "add_inventory"} =>
                   \A r \in ReqRows(inventory) :
                      ReqRows(inventory') = {[r EXCEPT !.quantity = r.quantity + ReqQty,
                                                       !.unit_price = ReqPrice]}
             /\ (/\ resp'.op = "sell"
                 /\ SaleLines # {}
                 /\ \A r \in SaleLines : Requested(r) <= r.quantity)
                   => /\ resp'.flash = "Sale recorded"
                      /\ \A r \in SaleLines :
                            \A n \in inventory' :
                               n.id = r.id => n.quantity = r.quantity - Requested(r)]_vars

\* a recorded sale whose form also asked for stock of another shop's row of
\* the same product: that row is there, and the other shop has a purchase
\* and no sale
C18_Witness ==
    /\ resp.op = "sell"
    /\ resp.flash = "Sale recorded"
    /\ \E r \in inventory :
          /\ r.shop_name # users[resp.user].shop_name
          /\ r.oil_type = sales[Len(sales)].oil_type
          /\ r.id \in DOMAIN resp.form
          /\ resp.form[r.id] = Num(1)
          /\ \A i \in DOMAIN sales : sales[i].shop_name # r.shop_name
          /\ \E i \in DOMAIN purchases : purchases[i].shop_name = r.shop_name

\* two accounts of one shop: the second one's manual entry went to the row
\* that the first one's purchase had made
C18_SharedRow ==
    /\ resp.op = "add_inventory"
    /\ resp.user = 2
    /\ users[1].shop_name = users[2].shop_name
    /\ Len(purchases) = 1 /\ sales = <<>>
    /\ \E r \in inventory :
          /\ inventory = {r}
          /\ r.quantity = purchases[1].quantity + resp.quantity.v

-----------------------------------------------------------------------------
(* Properties of concurrent requests *)

\* This step is the try block of browser c's sale
SaleWritten(c) == inflight[c].pc = "write" /\ inflight'[c] = Idle

\* the row of every line of browser c's sale is there when the try block
\* starts (for the first line: when it was read)
RowsStillThere(c) ==
    /\ inflight[c].ex # {}
    /\ \A k \in 2..Len(inflight[c].sells) :
          InventoryById(inventory, inflight[c].sells[k].inventory_id) # {}

\* C13: the stock check of a sale takes no lock, and the try block does not
\* check the stock again: a sale that has passed its check is recorded in
\* full, whatever its rows hold by then, as long as they are still there.
\* So two sales of one row that both pass the check before either writes
\* are both recorded, and more is sold than the row held (C13_Witness).
C13_CheckedSaleIsRecorded ==
    [][\A c \in Clients :
          (SaleWritten(c) /\ RowsStillThere(c))
             => /\ resp'.flash = "Sale recorded"
                /\ Len(sales') = Len(sales) + Len(inflight[c].sells)
                /\ SubSeq(sales', 1, Len(sales)) = sales
                /\ \A k \in DOMAIN inflight[c].sells :
                      LET rec == sales'[Len(sales) + k]
                          s == inflight[c].sells[k]
                      IN  /\ rec.oil_type = s.oil_type /\ rec.unit = s.unit
                          /\ rec.quantity = s.qty]_vars

\* two recorded sales of one product after which more of it has been sold
\* than was ever bought, the purchases being its only source of stock
C13_Witness ==
    /\ resp.op = "sell"
    /\ resp.flash = "Sale recorded"
    /\ Len(sales) >= 2
    /\ \E key \in LedgerKeys :
          /\ KeyOf(sales[Len(sales)]) = key
          /\ KeyOf(sales[Len(sales) - 1]) = key
          /\ LoggedQuantity(sales, key) > LoggedQuantity(purchases, key)

\* C14: a sale of several lines is applied as a whole or not at all.  Its
\* try block ends either with every line recorded, or, when a line fails
\* (its row was deleted by another request after the check), with the
\* inventory and the sales log as they were before the block, whatever the
\* lines before the failing one had written.
C14_SaleIsAllOrNothing ==
    [][\A c \in Clients :
          SaleWritten(c)
             => /\ \/ /\ resp'.flash = "Sale recorded"
                      /\ Len(sales') = Len(sales) + Len(inflight[c].sells)
                   \/ /\ resp'.flash = "Error recording sale"
                      /\ db' = db
                /\ ~RowsStillThere(c) => resp'.flash = "Error recording sale"]_vars

\* a failed sale of two lines: the row of the first line was there, so the
\* first line had been applied when the second one failed on a row that
\* was gone
C14_Witness ==
    /\ resp.op = "sell"
    /\ resp.flash = "Error recording sale"
    /\ Len(resp.sells) = 2
    /\ \E r \in inventory :
          /\ r.id = resp.sells[1].inventory_id
          /\ r.quantity >= resp.sells[1].qty
    /\ InventoryById(inventory, resp.sells[2].inventory_id) = {}

\* This step ends the transaction of browser c's purchase
PurchaseEnded(c) == inflight[c].pc = "tx" /\ inflight'[c] = Idle

\* the inventory after the upsert of a purchase record
UpsertApplied(rec) ==
    LET rows == {r \in inventory : KeyOf(r) = KeyOf(rec)}
    IN  IF rows = {}
        THEN \E n \in inventory' :
                /\ KeyOf(n) = KeyOf(rec)
                /\ n.quantity = rec.quantity /\ n.unit_price = rec.price_per_unit
                /\ n \notin inventory
                /\ inventory' = inventory \cup {n}
        ELSE \E r \in rows :
                inventory' = (inventory \ {r}) \cup
                    {[r EXCEPT !.quantity = r.quantity + rec.quantity,
                               !.unit_price = rec.price_per_unit]}

\* C15: the two writes of a purchase are one transaction.  In the committed
\* tables, which are what other requests read, the purchase record appears
\* in the same step as the upsert of its inventory row and never without
\* it; while the transaction is open neither is there; and a purchase that
\* fails between the two writes leaves the tables as they were.
C15_PurchaseIsOneTransaction ==
    [][/\ purchases' # purchases =>
             \E c \in Clients :
                /\ PurchaseEnded(c)
                /\ purchases' = inflight[c].purchases
                /\ Len(purchases') = Len(purchases) + 1
                /\ SubSeq(purchases', 1, Len(purchases)) = purchases
                /\ UpsertApplied(purchases'[Len(purchases')])
       /\ \A c \in Clients :
             /\ (PurchaseEnded(c) /\ inventory' # inventory) => purchases' # purchases
             /\ (PurchaseEnded(c) /\ resp'.to = "error") => db' = db
             /\ inflight'[c].pc = "tx" =>
                   /\ Len(inflight'[c].purchases) = Len(purchases') + 1
                   /\ SubSeq(inflight'[c].purchases, 1, Len(purchases')) = purchases'
                   /\ inventory' = inventory]_vars

\* a purchase that failed after its INSERT, the last thing the clock was
\* read for: the log holds an earlier purchase and no record of this one
C15_Witness ==
    /\ resp.op = "purchase"
    /\ resp.to = "error"
    /\ sales = <<>>
    /\ Len(purchases) >= 1
    /\ \A i \in DOMAIN purchases : purchases[i].date < clock
    /\ \E r \in inventory : r.quantity = LoggedQuantity(purchases, KeyOf(r))

\* the purchase history read by another browser while the transaction is
\* open: it shows the committed log, without the record just inserted
C15_SeenInBetween ==
    /\ resp.op = "purchase_history"
    /\ \E c \in Clients \ {resp.client} :
          /\ inflight[c].pc = "tx"
          /\ Len(resp.rows) = Len(purchases)
          /\ Len(inflight[c].purchases) = Len(purchases) + 1

\* C16: the inventory table never holds two rows with the same shop_name,
\* oil_type and unit, whatever the order in which the steps of manual stock
\* entries, purchases and sales are taken.
C16_OneRowPerKey ==
    \A r1, r2 \in inventory : KeyOf(r1) = KeyOf(r2) => r1 = r2

\* a manual stock entry that found no row of its key, and whose INSERT was
\* refused because another request had created the row by then
C16_Witness ==
    /\ resp.op = "add_inventory"
    /\ resp.to = "error"
    /\ Cardinality({r \in inventory :
                       /\ r.shop_name = users[resp.user].shop_name
                       /\ r.oil_type = Strip(resp.oil_type)
                       /\ r.unit = UnitField(resp.unit)}) = 1

====
